---- MODULE Spec2Model ----
(***************************************************************************)
(* The bounded candidate set of adapters/repos/db/vector/ssdHelpers/set.go *)
(* (type Set: an unbalanced binary search tree of IndexAndDistance nodes   *)
(* plus a size counter and a capacity), driven by arbitrary sequences of   *)
(* its public operations.                                                  *)
(*                                                                         *)
(* A *Node is modelled by value: NIL is the nil pointer, any other tree is *)
(* a record [data, left, right].  The tree is singly owned (no node is     *)
(* reachable along two paths), so an in-place update of a node is the      *)
(* functional update of the path that leads to it.                         *)
(*                                                                         *)
(* The module also holds the schema manager's startup cluster sync of      *)
(* usecases/schema/startup_cluster_sync.go, with its own variables and its *)
(* own specification (SpecSync).  Every specification moves the variables  *)
(* of one component and leaves those of the others at rest.                *)
(*                                                                         *)
(* Four components have only their callers or tests in the sources read    *)
(* here and are modelled from the design document: the greedy search of    *)
(* the graph index over the Set (SpecSearch), the build of the graph with  *)
(* robust pruning (SpecBuild), the tile encoder (SpecTile) and the lsmkv   *)
(* store (SpecStore).                                                      *)
(*                                                                         *)
(* The referenceSchemaUpdater of the REST API (addNetworkDataTypes and its *)
(* callees) is modelled from its code under SpecUpdater.                   *)
(***************************************************************************)
EXTENDS Integers, Sequences, FiniteSets, TLC

\* ------------------------------------------------------------------ bounds
MaxID       == 2   \* vector IDs are 0..MaxID (uint64 in the source)
MaxDist     == 2   \* distances are 1..MaxDist (float32 in the source)
MaxCapacity == 2   \* capacity passed to NewSet is 0..MaxCapacity
MaxRange    == 1   \* longest slice passed to AddRange

IDs       == 0..MaxID
Dists     == 1..MaxDist
Caps      == 0..MaxCapacity

\* ------------------------------------------------------------------ state
VARIABLES
    items,      \* Set.items: the root *Node, NIL when the set is empty
    size,       \* Set.size: the counter Size() reports
    capacity,   \* Set.capacity
    distOf,     \* s.distance(s.vectorForID(x), s.center) for every ID x
    crashed,    \* TRUE once an operation has panicked (nil dereference)
    op,         \* the last operation: its name, inputs and what it returned
    prev,       \* items, size and returned as they were before that operation
    returned    \* the IDs Node.Top has handed out so far (found = true)

setVars == <<items, size, capacity, distOf, crashed, op, prev, returned>>

\* Manager.startupClusterSync and the cluster it talks to
VARIABLES
    nodes,        \* m.clusterState.AllNames()
    localSchema,  \* the *State passed to startupClusterSync
    state,        \* m.state
    txSchema,     \* pl.Schema: the schema the other nodes agree on
    beginOk,      \* whether m.cluster.BeginTransaction succeeds
    payloadOk,    \* whether tx.Payload is a ReadSchemaPayload
    pc,           \* where the startup is
    err,          \* the error startupClusterSync returns ("nil": none)
    log           \* the calls made so far: begin, state, save, close

syncVars == <<nodes, localSchema, state, txSchema, beginOk, payloadOk, pc,
              err, log>>

\* The greedy search of the graph index over a candidate set
VARIABLES
    edges,      \* the graph: the out-neighbours of every vertex, in order
    spc,        \* where the search is
    turn,       \* the parity of the number of turns of the loop taken
    k,          \* the k of Search(query, k)
    result      \* what Search returns

searchVars == <<edges, spc, turn, k, result>>

\* The build of the graph index
VARIABLES
    pos,        \* the vector of every vertex: a coordinate on a line
    R,          \* the maximal out-degree
    alpha,      \* the pruning factor
    out,        \* the out-edges of every vertex, in order
    todo,       \* the vertices whose per-node procedure is still to run
    cur,        \* the vertex being processed, 0 between two vertices
    pending,    \* its accepted neighbours whose back-edge is still to be added
    bpc,        \* where the build is
    lastPrune   \* the call of robust-prune of the last step, what it returned

buildVars == <<pos, R, alpha, out, todo, cur, pending, bpc, lastPrune>>

\* The tile encoder (scalar quantizer) of one dimension
VARIABLES
    bits,       \* the bit width the encoder was made with
    hist,       \* how many times every value was given to Add
    encoded     \* the call of Encode of the last step, what it returned

tileVars == <<bits, hist, encoded>>

\* The lsmkv store of TestStoreLifecycle
VARIABLES
    disk,       \* what the directory holds for every bucket and key
    open,       \* a store is open on the directory
    loaded,     \* the buckets the open store created or loaded
    mem,        \* the memtable of every bucket of the open store
    written,    \* the value last given to Put for every bucket and key
    got         \* the call of Get of the last step and what it returned

storeVars == <<disk, open, loaded, mem, written, got>>

\* The referenceSchemaUpdater of the REST API
VARIABLES
    refSchema,  \* the schema given to addNetworkDataTypes: nil or its props
    remaining,  \* the props the range over the map has still to yield
    curProp,    \* the MultipleRef prop being ranged over, 0 when none is
    refsLeft,   \* how many of its references are still to come
    upc,        \* where addNetworkDataTypes is
    uerr,       \* the error addNetworkDataTypes returned
    ulog        \* what became of every reference handed to singleRef

updaterVars == <<refSchema, remaining, curProp, refsLeft, upc, uerr, ulog>>

\* the variables of every component but the candidate set
others == <<syncVars, searchVars, buildVars, tileVars, storeVars, updaterVars>>

\* the variables startupClusterSync leaves alone
notSync == <<setVars, searchVars, buildVars, tileVars, storeVars,
    updaterVars>>

\* the variables a search leaves alone, the candidate set's apart
notSearch == <<syncVars, buildVars, tileVars, storeVars,
    updaterVars>>

\* the variables a build leaves alone
notBuild == <<setVars, syncVars, searchVars, tileVars, storeVars,
    updaterVars>>

\* the variables the tile encoder leaves alone
notTile == <<setVars, syncVars, searchVars, buildVars, storeVars,
    updaterVars>>

\* the variables addNetworkDataTypes leaves alone
notUpdater == <<setVars, syncVars, searchVars, buildVars, tileVars, storeVars>>

\* the variables the store leaves alone
notStore == <<setVars, syncVars, searchVars, buildVars, tileVars,
    updaterVars>>

vars == <<setVars, others>>

NIL == <<>>

\* &Node{left: nil, right: nil, data: data}
MkNode(data) == [data |-> data, left |-> NIL, right |-> NIL]

\* IndexAndDistance{index: x, distance: dist, visited: false}
MkData(x, dist) == [index |-> x, distance |-> dist, visited |-> FALSE]

\* ------------------------------------------------ helpers over whole trees
RECURSIVE InOrder(_)
InOrder(n) ==
    IF n = NIL THEN <<>>
    ELSE InOrder(n.left) \o <<n.data>> \o InOrder(n.right)

Entries(n)   == {InOrder(n)[i] : i \in 1..Len(InOrder(n))}
Count(n)     == Len(InOrder(n))
HeldIDs(n)   == {e.index : e \in Entries(n)}
Unvisited(n) == {e \in Entries(n) : ~e.visited}

\* --------------------------------------------------------------- Node.Add
\* Node.Add with the comparison of line 72 reversed.
RECURSIVE NodeAdd_Reversed(_, _)
NodeAdd_Reversed(n, data) ==
    IF n.data.index = data.index THEN n
    ELSE IF n.data.distance < data.distance THEN
        IF n.left = NIL THEN [n EXCEPT !.left = MkNode(data)]
        ELSE [n EXCEPT !.left = NodeAdd_Reversed(n.left, data)]
    ELSE IF n.right = NIL THEN [n EXCEPT !.right = MkNode(data)]
    ELSE [n EXCEPT !.right = NodeAdd_Reversed(n.right, data)]

\* func (n *Node) Add(data IndexAndDistance): n is not nil
RECURSIVE NodeAdd(_, _)
NodeAdd(n, data) ==
    IF n.data.index = data.index THEN n
    ELSE IF n.data.distance > data.distance THEN
        IF n.left = NIL THEN [n EXCEPT !.left = MkNode(data)]
        ELSE [n EXCEPT !.left = NodeAdd(n.left, data)]
    ELSE IF n.right = NIL THEN [n EXCEPT !.right = MkNode(data)]
    ELSE [n EXCEPT !.right = NodeAdd(n.right, data)]

\* -------------------------------------------------------------- Node.Last
\* Node.Last without the recursion into n.right: the root is the last node.
Last_NoDescent(n, parent) == <<n, parent>>

\* func (n *Node) Last(parent *Node) (*Node, *Node): n is not nil
RECURSIVE Last(_, _)
Last(n, parent) ==
    IF n.right = NIL THEN <<n, parent>>
    ELSE Last(n.right, n)

\* The pointer write "parent.right = r" of RemoveLastIfBigger, on a tree held
\* by value: parent is a node of the right spine of n.
RECURSIVE SetRight(_, _, _)
SetRight(n, parent, r) ==
    IF n = parent \/ n.right = NIL THEN [n EXCEPT !.right = r]
    ELSE [n EXCEPT !.right = SetRight(n.right, parent, r)]

\* ------------------------------------------------- Set.RemoveLastIfBigger
\* RemoveLastIfBigger with the test of line 98 reversed.
RemoveLastIfBigger_Reversed(its, dist) ==
    IF its = NIL THEN [panic |-> TRUE, removed |-> FALSE, items |-> its]
    ELSE
        LET lp     == Last(its, NIL)
            last   == lp[1]
            parent == lp[2]
        IN  IF last.data.distance > dist
            THEN [panic |-> FALSE, removed |-> FALSE, items |-> its]
            ELSE IF parent = NIL
            THEN [panic |-> FALSE, removed |-> TRUE, items |-> its.left]
            ELSE [panic |-> FALSE, removed |-> TRUE,
                  items |-> SetRight(its, parent, last.left)]

\* func (s *Set) RemoveLastIfBigger(dist float32) bool.  s.items.Last(nil)
\* on a nil s.items dereferences nil (n.right): a panic.
RemoveLastIfBigger(its, dist) ==
    IF its = NIL THEN [panic |-> TRUE, removed |-> FALSE, items |-> its]
    ELSE
        LET lp     == Last(its, NIL)
            last   == lp[1]
            parent == lp[2]
        IN  IF last.data.distance < dist
            THEN [panic |-> FALSE, removed |-> FALSE, items |-> its]
            ELSE IF parent = NIL
            THEN [panic |-> FALSE, removed |-> TRUE, items |-> its.left]
            ELSE [panic |-> FALSE, removed |-> TRUE,
                  items |-> SetRight(its, parent, last.left)]

\* ---------------------------------------------------------------- Set.Add
\* The test of line 41 off by one: the set is taken to be full one entry late.
IsFull_OffByOne(sz, cap) == sz = cap + 1

\* if s.size == s.capacity
IsFull(sz, cap) == sz = cap

\* func (s *Set) Add(x uint64) *Set, from line 39 on: dist is the distance
\* computed for x.  The result is the set's fields after the call.
SetAdd(its, sz, cap, x, dist) ==
    LET full == IsFull(sz, cap)
        r    == IF full THEN RemoveLastIfBigger(its, dist)
                ELSE [panic |-> FALSE, removed |-> FALSE, items |-> its]
    IN  IF r.panic THEN [panic |-> TRUE, items |-> its, size |-> sz]
        ELSE IF full /\ ~r.removed
        THEN [panic |-> FALSE, items |-> its, size |-> sz]
        ELSE
            LET sz2  == (IF full THEN sz - 1 ELSE sz) + 1
                data == MkData(x, dist)
            IN  IF r.items = NIL
                THEN [panic |-> FALSE, items |-> MkNode(data), size |-> sz2]
                ELSE [panic |-> FALSE, items |-> NodeAdd(r.items, data),
                      size |-> sz2]

\* func (s *Set) AddRange(indices []uint64) *Set: s.Add(item) for every item
\* in turn, starting from the fields in st.  The result also tells the last
\* Add the loop made (its item, and the fields it started from); calls is the
\* number of Add calls made.
RECURSIVE SetAddRange(_, _, _, _)
SetAddRange(st, cap, indices, d) ==
    IF indices = <<>> THEN st
    ELSE
        LET x == Head(indices)
            r == SetAdd(st.items, st.size, cap, x, d[x])
            n == [panic |-> r.panic, items |-> r.items, size |-> r.size,
                  calls |-> st.calls + 1, x |-> x,
                  before |-> [items |-> st.items, size |-> st.size]]
        IN  IF r.panic THEN n
            ELSE SetAddRange(n, cap, Tail(indices), d)

\* ------------------------------------------------------- Node.NotVisited
\* func (n *Node) NotVisited() bool: n is not nil
RECURSIVE NodeNotVisited(_)
NodeNotVisited(n) ==
    IF ~n.data.visited THEN TRUE
    ELSE \/ (n.left # NIL /\ NodeNotVisited(n.left))
         \/ (n.right # NIL /\ NodeNotVisited(n.right))

\* --------------------------------------------------------------- Node.Top
\* Node.Top looking at the node itself before its left subtree.
RECURSIVE NodeTop_SelfFirst(_)
NodeTop_SelfFirst(n) ==
    IF ~n.data.visited
    THEN [index |-> n.data.index, found |-> TRUE,
          node |-> [n EXCEPT !.data.visited = TRUE]]
    ELSE
        LET l == IF n.left # NIL THEN NodeTop_SelfFirst(n.left)
                 ELSE [index |-> 0, found |-> FALSE, node |-> NIL]
        IN  IF n.left # NIL /\ l.found
            THEN [index |-> l.index, found |-> TRUE,
                  node |-> [n EXCEPT !.left = l.node]]
            ELSE IF n.right # NIL
            THEN LET r == NodeTop_SelfFirst(n.right)
                 IN  [index |-> r.index, found |-> r.found,
                      node |-> [n EXCEPT !.right = r.node]]
            ELSE [index |-> 0, found |-> FALSE, node |-> n]

\* func (n *Node) Top() (uint64, bool): n is not nil.  node is the subtree
\* after the call (the visited flag of the entry found is set in place).
RECURSIVE NodeTop(_)
NodeTop(n) ==
    LET l == IF n.left # NIL THEN NodeTop(n.left)
             ELSE [index |-> 0, found |-> FALSE, node |-> NIL]
    IN  IF n.left # NIL /\ l.found
        THEN [index |-> l.index, found |-> TRUE,
              node |-> [n EXCEPT !.left = l.node]]
        ELSE IF ~n.data.visited
        THEN [index |-> n.data.index, found |-> TRUE,
              node |-> [n EXCEPT !.data.visited = TRUE]]
        ELSE IF n.right # NIL
        THEN LET r == NodeTop(n.right)
             IN  [index |-> r.index, found |-> r.found,
                  node |-> [n EXCEPT !.right = r.node]]
        ELSE [index |-> 0, found |-> FALSE, node |-> n]

\* ---------------------------------------------------------- Node.Elements
NoPanic(buffer, offset) == [panic |-> FALSE, buffer |-> buffer, offset |-> offset]

\* Node.Elements writing the node's own index before its left subtree.
RECURSIVE NodeElements_PreOrder(_, _, _)
NodeElements_PreOrder(n, buffer, offset) ==
    IF offset >= Len(buffer)
    THEN [panic |-> TRUE, buffer |-> buffer, offset |-> offset]
    ELSE
        LET b == [buffer EXCEPT ![offset + 1] = n.data.index]
            a == IF n.left # NIL
                 THEN NodeElements_PreOrder(n.left, b, offset + 1)
                 ELSE NoPanic(b, offset + 1)
        IN  IF a.panic THEN a
            ELSE IF n.right # NIL
            THEN NodeElements_PreOrder(n.right, a.buffer, a.offset)
            ELSE a

\* func (n *Node) Elements(buffer []uint64, offset int) int: n is not nil.
\* buffer[offset] is 0-based in the source, so it is buffer[offset + 1] here;
\* a write at offset >= len(buffer) is an index-out-of-range panic.
RECURSIVE NodeElements(_, _, _)
NodeElements(n, buffer, offset) ==
    LET a == IF n.left # NIL THEN NodeElements(n.left, buffer, offset)
             ELSE NoPanic(buffer, offset)
    IN  IF a.panic THEN a
        ELSE IF a.offset >= Len(a.buffer)
        THEN [panic |-> TRUE, buffer |-> a.buffer, offset |-> a.offset]
        ELSE
            LET b == [a.buffer EXCEPT ![a.offset + 1] = n.data.index]
            IN  IF n.right # NIL THEN NodeElements(n.right, b, a.offset + 1)
                ELSE NoPanic(b, a.offset + 1)

\* func (s *Set) Elements() []uint64: res := make([]uint64, s.size), then
\* s.items.Elements(res, 0) (a nil dereference when s.items is nil), res[:i]
SetElements(its, sz) ==
    IF its = NIL THEN [panic |-> TRUE, res |-> <<>>]
    ELSE
        LET r == NodeElements(its, [i \in 1..sz |-> 0], 0)
        IN  IF r.panic THEN [panic |-> TRUE, res |-> <<>>]
            ELSE [panic |-> FALSE, res |-> SubSeq(r.buffer, 1, r.offset)]

\* ---------------------------------------------------------------- actions
\* What the last operation was and what its caller got back.  err is the
\* error value handed to the caller: no operation of Set returns one.
NoOp == [name |-> "NewSet", x |-> 0, dist |-> 0, fetchOk |-> TRUE,
         err |-> FALSE, ret |-> 0, found |-> FALSE, flag |-> FALSE,
         elems |-> <<>>, panic |-> FALSE]

Snapshot == [items |-> items, size |-> size, returned |-> returned]

\* ------------------------------------------------------ components at rest
\* A State with a nil ObjectSchema
NilSchema == [ObjectSchema |-> NIL]

\* The schema manager before any startup is run
SyncIdle ==
    /\ nodes = <<>>
    /\ localSchema = NilSchema
    /\ state = NilSchema
    /\ txSchema = NilSchema
    /\ beginOk = FALSE
    /\ payloadOk = FALSE
    /\ pc = "idle"
    /\ err = "nil"
    /\ log = <<>>

\* No graph and no search
SearchIdle ==
    /\ edges = <<>>
    /\ spc = "idle"
    /\ turn = 0
    /\ k = 0
    /\ result = <<>>

\* The last step called no robust-prune
NoPrune == [called |-> FALSE, step |-> "none", v |-> 0, pool |-> {},
            res |-> <<>>]

\* No build
BuildIdle ==
    /\ pos = <<>>
    /\ R = 0
    /\ alpha = 0
    /\ out = <<>>
    /\ todo = {}
    /\ cur = 0
    /\ pending = <<>>
    /\ bpc = "idle"
    /\ lastPrune = NoPrune

\* The last step called no Encode
NoEncode == [called |-> FALSE, value |-> 0, code |-> 0, failed |-> FALSE]

\* No tile encoder
TileIdle ==
    /\ bits = 0
    /\ hist = <<>>
    /\ encoded = NoEncode

\* The last step called no Get
NoGet == [called |-> FALSE, bucket |-> "", key |-> 0, res |-> 0]

\* No store and no directory
StoreIdle ==
    /\ disk = <<>>
    /\ open = FALSE
    /\ loaded = {}
    /\ mem = <<>>
    /\ written = <<>>
    /\ got = NoGet

\* addNetworkDataTypes(nil)
NilRefSchema == [isNil |-> TRUE, props |-> <<>>]

\* No referenceSchemaUpdater
UpdaterIdle ==
    /\ refSchema = NilRefSchema
    /\ remaining = {}
    /\ curProp = 0
    /\ refsLeft = 0
    /\ upc = "idle"
    /\ uerr = "nil"
    /\ ulog = <<>>

OthersIdle ==
    /\ SyncIdle
    /\ SearchIdle
    /\ BuildIdle
    /\ TileIdle
    /\ StoreIdle
    /\ UpdaterIdle

\* NewSet(capacity, vectorForID, distance, center)
Init ==
    /\ OthersIdle
    /\ items = NIL
    /\ size = 0
    /\ capacity \in Caps
    /\ distOf \in [IDs -> Dists]
    /\ crashed = FALSE
    /\ op = NoOp
    /\ prev = [items |-> NIL, size |-> 0, returned |-> {}]
    /\ returned = {}

\* The effect of Add(x) once the distance dist has been computed (lines 41-65).
AddWith(x, dist, ok) ==
    \E r \in {SetAdd(items, size, capacity, x, dist)} :
        /\ ~crashed
        /\ items' = r.items
        /\ size' = r.size
        /\ crashed' = r.panic
        /\ op' = [NoOp EXCEPT !.name = "Add", !.x = x, !.dist = dist,
                              !.fetchOk = ok, !.panic = r.panic]
        /\ prev' = Snapshot
        /\ UNCHANGED <<capacity, distOf, returned>>
        /\ UNCHANGED others

\* s.Add(x), the vector of x being fetched
Add(x) == AddWith(x, distOf[x], TRUE)

\* s.Add(x) when s.vectorForID fails: line 38 drops the error and goes on
\* with the vector returned along with it; the distance of that vector to
\* the center is whatever the distance function makes of it.
AddFetchFailed(x) == \E d \in Dists : AddWith(x, d, FALSE)

\* s.AddRange(indices).  Every item is added by a call of s.Add, so the last
\* operation on the set is then the loop's last Add; an empty slice leaves
\* the set and the record of the last operation as they are.
AddRange(indices) ==
    \E r \in {SetAddRange([panic |-> FALSE, items |-> items, size |-> size,
                              calls |-> 0, x |-> 0,
                              before |-> [items |-> items, size |-> size]],
                             capacity, indices, distOf)} :
        /\ ~crashed
        /\ items' = r.items
        /\ size' = r.size
        /\ crashed' = r.panic
        /\ IF r.calls = 0 THEN UNCHANGED <<op, prev>>
           ELSE /\ op' = [NoOp EXCEPT !.name = "Add", !.x = r.x,
                                      !.dist = distOf[r.x], !.panic = r.panic]
                /\ prev' = [items |-> r.before.items, size |-> r.before.size,
                            returned |-> returned]
        /\ UNCHANGED <<capacity, distOf, returned>>
        /\ UNCHANGED others

\* s.Top(): x, _ := s.items.Top(); return x.  On a nil s.items the call
\* dereferences nil (n.left).  found is what Node.Top reported and Set.Top
\* dropped; ret is all the caller sees.
Top ==
    /\ ~crashed
    /\ IF items = NIL
       THEN /\ crashed' = TRUE
            /\ op' = [NoOp EXCEPT !.name = "Top", !.panic = TRUE]
            /\ UNCHANGED <<items, returned>>
       ELSE \E r \in {NodeTop(items)} :
                /\ items' = r.node
                /\ crashed' = FALSE
                /\ op' = [NoOp EXCEPT !.name = "Top", !.ret = r.index,
                                      !.found = r.found]
                /\ returned' = IF r.found THEN returned \cup {r.index}
                               ELSE returned
    /\ prev' = Snapshot
    /\ UNCHANGED <<size, capacity, distOf>>
    /\ UNCHANGED others

\* s.NotVisited(): s.items.NotVisited(), a nil dereference on a nil s.items
NotVisited ==
    /\ ~crashed
    /\ IF items = NIL
       THEN /\ crashed' = TRUE
            /\ op' = [NoOp EXCEPT !.name = "NotVisited", !.panic = TRUE]
       ELSE /\ crashed' = FALSE
            /\ op' = [NoOp EXCEPT !.name = "NotVisited",
                                  !.flag = NodeNotVisited(items)]
    /\ prev' = Snapshot
    /\ UNCHANGED <<items, size, capacity, distOf, returned>>
    /\ UNCHANGED others

\* s.Size()
Size ==
    /\ ~crashed
    /\ op' = [NoOp EXCEPT !.name = "Size", !.ret = size]
    /\ prev' = Snapshot
    /\ UNCHANGED <<items, size, capacity, distOf, crashed, returned>>
    /\ UNCHANGED others

\* s.Elements()
Elements ==
    \E r \in {SetElements(items, size)} :
        /\ ~crashed
        /\ crashed' = r.panic
        /\ op' = [NoOp EXCEPT !.name = "Elements", !.elems = r.res,
                              !.panic = r.panic]
        /\ prev' = Snapshot
        /\ UNCHANGED <<items, size, capacity, distOf, returned>>
        /\ UNCHANGED others

RECURSIVE SeqsUpTo(_)
SeqsUpTo(n) ==
    IF n = 0 THEN {<<>>}
    ELSE SeqsUpTo(n - 1) \cup [1..n -> IDs]

Next ==
    \/ \E x \in IDs : Add(x)
    \/ \E indices \in SeqsUpTo(MaxRange) : AddRange(indices)
    \/ Top
    \/ NotVisited
    \/ Size
    \/ Elements

Spec == Init /\ [][Next]_vars

\* The same program with a VectorSource that may fail.
NextFetch ==
    \/ Next
    \/ \E x \in IDs : AddFetchFailed(x)

SpecFetch == Init /\ [][NextFetch]_vars

\* ------------------------------------------- Manager.startupClusterSync
MaxNodes   == 2   \* AllNames() returns at most MaxNodes names
MaxClasses == 2   \* class names are 1..MaxClasses

LocalName  == "node1"                    \* m.clusterState.LocalName()
NodeNames  == {"node1", "node2"}
ClassNames == 1..MaxClasses

\* The values of a *State: a nil ObjectSchema, or an ObjectSchema with a
\* (possibly empty) set of classes
States ==
    {NilSchema} \cup {[ObjectSchema |-> [Classes |-> c]] : c \in SUBSET ClassNames}

RECURSIVE NameSeqs(_)
NameSeqs(n) ==
    IF n = 0 THEN {<<>>}
    ELSE NameSeqs(n - 1) \cup [1..n -> NodeNames]

\* isEmpty that only looks for the nil ObjectSchema.
isEmpty_NilOnly(schema) == schema.ObjectSchema = NIL

\* func isEmpty(schema *State) bool
isEmpty(schema) ==
    IF schema.ObjectSchema = NIL THEN TRUE
    ELSE IF Cardinality(schema.ObjectSchema.Classes) = 0 THEN TRUE
    ELSE FALSE

\* Equal that takes any two schemas with classes to be equal.
Equal_AnyClasses(a, b) == ~isEmpty(a) /\ ~isEmpty(b)

\* Equal(localSchema, pl.Schema): the two states have the same content
Equal(a, b) == a = b

\* startupHandleSingleNode that does not look at the node's name.
startupHandleSingleNode_AnyName(ns, localName) ==
    IF Len(ns) = 0 THEN "corrupt cluster state: size=0"
    ELSE "nil"

\* func (m *Manager) startupHandleSingleNode(ctx, nodes) error
startupHandleSingleNode(ns, localName) ==
    IF Len(ns) = 0 THEN "corrupt cluster state: size=0"
    ELSE IF ns[1] # localName THEN "corrupt cluster state: node name"
    ELSE "nil"

\* startupClusterSync, lines 42-51: which function it returns the result of
Dispatch(ns, schema) ==
    IF Len(ns) <= 1 THEN "single"
    ELSE IF isEmpty(schema) THEN "join"
    ELSE "validate"

\* startupJoinCluster, lines 100-117, after the transaction was opened: the
\* error returned, m.state afterwards and the calls made on the way
JoinBody(ok, plSchema, st) ==
    IF ~ok THEN [err |-> "unrecognized tx response payload", state |-> st,
                 calls |-> <<>>]
    ELSE IF isEmpty(plSchema) THEN [err |-> "nil", state |-> st, calls |-> <<>>]
    ELSE [err |-> "nil", state |-> plSchema, calls |-> <<"state", "save">>]

\* validateSchemaCorruption, lines 135-145, after the transaction was opened
ValidateBody(ok, schema, plSchema) ==
    IF ~ok THEN "unrecognized tx response payload"
    ELSE IF ~Equal(schema, plSchema) THEN "corrupt cluster"
    ELSE "nil"

SetIdle ==
    /\ items = NIL
    /\ size = 0
    /\ capacity = 0
    /\ distOf = [x \in IDs |-> 1]
    /\ crashed = FALSE
    /\ op = NoOp
    /\ prev = [items |-> NIL, size |-> 0, returned |-> {}]
    /\ returned = {}

\* A node about to start: the cluster's names, the schema the node has, the
\* schema the others agree on and the behaviour of the transaction.  m.state
\* is the schema the node has.
InitSync ==
    /\ UpdaterIdle
    /\ StoreIdle
    /\ SetIdle
    /\ SearchIdle
    /\ BuildIdle
    /\ TileIdle
    /\ nodes \in NameSeqs(MaxNodes)
    /\ localSchema \in States
    /\ state = localSchema
    /\ txSchema \in States
    /\ beginOk \in BOOLEAN
    /\ payloadOk \in BOOLEAN
    /\ pc = "startupClusterSync"
    /\ err = "nil"
    /\ log = <<>>

SyncInputs == <<nodes, localSchema, txSchema, beginOk, payloadOk>>

\* startupClusterSync, lines 42-51
StartupClusterSync ==
    /\ pc = "startupClusterSync"
    /\ pc' = Dispatch(nodes, localSchema)
    /\ UNCHANGED <<SyncInputs, state, err, log, notSync>>

\* startupHandleSingleNode
StartupHandleSingleNode ==
    /\ pc = "single"
    /\ err' = startupHandleSingleNode(nodes, LocalName)
    /\ pc' = "done"
    /\ UNCHANGED <<SyncInputs, state, log, notSync>>

\* m.cluster.BeginTransaction(ctx, ReadSchema, nil) of lines 91-98 and
\* 126-133: on failure the function returns, on success the close is deferred
BeginTransaction ==
    /\ pc \in {"join", "validate"}
    /\ IF beginOk
       THEN /\ log' = Append(log, "begin")
            /\ pc' = IF pc = "join" THEN "joinBody" ELSE "validateBody"
            /\ UNCHANGED err
       ELSE /\ err' = "read schema: open transaction"
            /\ pc' = "done"
            /\ UNCHANGED log
    /\ UNCHANGED <<SyncInputs, state, notSync>>

\* startupJoinCluster, lines 100-117
StartupJoinCluster ==
    /\ pc = "joinBody"
    /\ \E r \in {JoinBody(payloadOk, txSchema, state)} :
           /\ err' = r.err
           /\ state' = r.state
           /\ log' = log \o r.calls
    /\ pc' = "deferred"
    /\ UNCHANGED <<SyncInputs, notSync>>

\* validateSchemaCorruption, lines 135-145
ValidateSchemaCorruption ==
    /\ pc = "validateBody"
    /\ err' = ValidateBody(payloadOk, localSchema, txSchema)
    /\ pc' = "deferred"
    /\ UNCHANGED <<SyncInputs, state, log, notSync>>

\* The deferred close left out.
CloseReadTransaction_Dropped ==
    /\ pc = "deferred"
    /\ pc' = "done"
    /\ UNCHANGED <<SyncInputs, state, err, log, notSync>>

\* defer m.cluster.CloseReadTransaction(ctx, tx): run when the function returns
CloseReadTransaction ==
    /\ pc = "deferred"
    /\ log' = Append(log, "close")
    /\ pc' = "done"
    /\ UNCHANGED <<SyncInputs, state, err, notSync>>

NextSync ==
    \/ StartupClusterSync
    \/ StartupHandleSingleNode
    \/ BeginTransaction
    \/ StartupJoinCluster
    \/ ValidateSchemaCorruption
    \/ CloseReadTransaction

SpecSync == InitSync /\ [][NextSync]_vars

\* ------------------------------------------------- GraphIndex: search
\* The greedy traversal of section 4.4 of the design: seed the candidate set
\* with the entry point, expand the nearest unvisited candidate until none is
\* left, return the k nearest of Elements().  The candidate set is the Set
\* above, of capacity L'.
MaxVertices == 2   \* the graph has vertices 0..n-1 with n <= MaxVertices
MaxDegree   == 1   \* out-degree of a vertex in the graphs searched
MaxK        == 2   \* k is 0..MaxK

EntryPoint == 0    \* the fixed entry point of a non-empty graph

Vertices(n) == 0..(n - 1)

\* The neighbour lists over the vertices V: sequences without repetition of
\* at most MaxDegree vertices
NeighbourLists(V) ==
    {l \in UNION {[1..d -> V] : d \in 0..MaxDegree} :
        \A i, j \in 1..Len(l) : i # j => l[i] # l[j]}

\* The first n elements of a list, all of them when it is shorter
FirstK(l, n) == SubSeq(l, 1, IF n < Len(l) THEN n ELSE Len(l))

\* A graph, distances of its vertices to the query and a candidate set of
\* capacity L' >= 1, before Search is called
InitSearch ==
    /\ UpdaterIdle
    /\ StoreIdle
    /\ SyncIdle
    /\ BuildIdle
    /\ TileIdle
    /\ \E n \in 0..MaxVertices :
           /\ edges \in [Vertices(n) -> NeighbourLists(Vertices(n))]
           /\ distOf \in [Vertices(n) -> Dists]
    /\ capacity \in 1..MaxCapacity
    /\ items = NIL
    /\ size = 0
    /\ crashed = FALSE
    /\ op = NoOp
    /\ prev = [items |-> NIL, size |-> 0, returned |-> {}]
    /\ returned = {}
    /\ spc = "start"
    /\ turn = 0
    /\ k = 0
    /\ result = <<>>

\* Search on an empty graph returns an empty result; otherwise the candidate
\* set is seeded with the entry point.
SearchStart ==
    /\ spc = "start"
    /\ IF DOMAIN edges = {}
       THEN /\ spc' = "done"
            /\ UNCHANGED <<items, size, crashed>>
       ELSE \E r \in {SetAdd(items, size, capacity, EntryPoint,
                             distOf[EntryPoint])} :
                /\ items' = r.items
                /\ size' = r.size
                /\ crashed' = r.panic
                /\ spc' = IF r.panic THEN "crashed" ELSE "loop"
    /\ UNCHANGED <<capacity, distOf, op, prev, returned, edges, turn, k,
                   result, notSearch>>

\* One turn of the loop while an unvisited candidate remains: Next() (Set.Top),
\* then Add of every out-neighbour of the vertex returned (Set.AddRange).
SearchExpand ==
    /\ spc = "loop"
    /\ items # NIL
    /\ NodeNotVisited(items)
    /\ \E t \in {NodeTop(items)} :
           \E r \in {SetAddRange([panic |-> FALSE, items |-> t.node,
                                  size |-> size, calls |-> 0, x |-> 0,
                                  before |-> [items |-> t.node, size |-> size]],
                                 capacity, edges[t.index], distOf)} :
               /\ items' = r.items
               /\ size' = r.size
               /\ crashed' = r.panic
               /\ spc' = IF r.panic THEN "crashed" ELSE "loop"
               /\ returned' = returned \cup {t.index}
    /\ turn' = 1 - turn
    /\ UNCHANGED <<capacity, distOf, op, prev, edges, k, result, notSearch>>

\* The loop ends when no candidate is unvisited; Search(query, k) returns the
\* first k of Elements(), all of them when there are fewer.
SearchCollect ==
    /\ spc = "loop"
    /\ items # NIL
    /\ ~NodeNotVisited(items)
    /\ \E r \in {SetElements(items, size)} :
           /\ crashed' = r.panic
           /\ spc' = IF r.panic THEN "crashed" ELSE "done"
           /\ \E kk \in 0..MaxK :
                  /\ k' = kk
                  /\ result' = FirstK(r.res, kk)
    /\ UNCHANGED <<items, size, capacity, distOf, op, prev, returned, edges,
                   turn, notSearch>>

NextSearch ==
    \/ SearchStart
    \/ SearchExpand
    \/ SearchCollect

SpecSearch == InitSearch /\ [][NextSearch]_vars

\* The loop is sequential code: a turn that can be taken is taken.
SpecSearchFair == SpecSearch /\ WF_vars(NextSearch)

\* -------------------------------------------------- GraphIndex: build
\* The per-node procedure of section 4.3 of the design, for vectors that are
\* points of a line under the L2 distance.
MaxPoints == 3   \* the vertices are 0..MaxPoints-1
MaxCoord  == 2   \* the coordinates are 0..MaxCoord
MaxR      == 2   \* R is 1..MaxR
MaxAlpha  == 2   \* alpha is 1..MaxAlpha

Points == 0..(MaxPoints - 1)

\* The distance of two vertices
Distance(a, b) == IF pos[a] < pos[b] THEN pos[b] - pos[a] ELSE pos[a] - pos[b]

\* The candidates of a pool closest to v: more than one when they are at
\* the same distance of v, and the design names no tie-break
Closest(v, pool) ==
    {p \in pool : \A q \in pool : Distance(v, p) <= Distance(v, q)}

\* q is occluded by the accepted neighbour p of v
Occluded(v, p, q, a) == a * Distance(p, q) <= Distance(v, q)

\* Robust-prune that stops at R neighbours but removes no occluded candidate.
RECURSIVE RobustPrune_NoOcclusion(_, _, _, _, _)
RobustPrune_NoOcclusion(v, pool, r, a, accepted) ==
    IF Len(accepted) = r \/ pool = {} THEN {accepted}
    ELSE UNION {RobustPrune_NoOcclusion(v, pool \ {p}, r, a,
                                        Append(accepted, p)) :
                    p \in Closest(v, pool)}

\* Robust-prune of a pool relative to v: accept the remaining candidate
\* closest to v, remove from the pool every candidate it occludes, until R
\* neighbours are accepted or the pool is exhausted.  The value is the set of
\* the lists it can return, one for every way of breaking the ties.
RECURSIVE RobustPrune(_, _, _, _, _)
RobustPrune(v, pool, r, a, accepted) ==
    IF Len(accepted) = r \/ pool = {} THEN {accepted}
    ELSE UNION {RobustPrune(v, {q \in pool \ {p} : ~Occluded(v, p, q, a)},
                            r, a, Append(accepted, p)) :
                    p \in Closest(v, pool)}

\* The vertices of a neighbour list
Neighbours(l) == {l[i] : i \in 1..Len(l)}

\* Where the build goes when the back-edges of the current vertex are done
AfterNode(left) == IF left = {} THEN "done" ELSE "node"

\* The vectors of a build: the vertices are numbered from left to right and
\* the leftmost is at 0, the procedure telling two vertices apart by their
\* distances alone
Positions ==
    {f \in [Points -> 0..MaxCoord] :
        /\ f[0] = 0
        /\ \A v \in Points \ {0} : f[v - 1] <= f[v]}

\* A build over MaxPoints vectors, no vertex processed yet
InitBuild ==
    /\ UpdaterIdle
    /\ StoreIdle
    /\ SetIdle
    /\ SyncIdle
    /\ SearchIdle
    /\ TileIdle
    /\ pos \in Positions
    /\ R \in 1..MaxR
    /\ alpha \in 1..MaxAlpha
    /\ out = [v \in Points |-> <<>>]
    /\ todo = Points
    /\ cur = 0
    /\ pending = <<>>
    /\ bpc = "node"
    /\ lastPrune = NoPrune

\* Steps 1 to 3 of the per-node procedure for v: the greedy search visited
\* the vertices of visited, robust-prune of them gives the out-edges of v.
BuildNode(v, visited) ==
    /\ bpc = "node"
    /\ v \in todo
    /\ \E res \in RobustPrune(v, visited, R, alpha, <<>>) :
           /\ out' = [out EXCEPT ![v] = res]
           /\ pending' = res
           /\ lastPrune' = [called |-> TRUE, step |-> "visited", v |-> v,
                            pool |-> visited, res |-> res]
           /\ bpc' = IF res = <<>> THEN AfterNode(todo \ {v}) ELSE "back"
           /\ cur' = IF res = <<>> THEN 0 ELSE v
    /\ todo' = todo \ {v}
    /\ UNCHANGED <<pos, R, alpha, notBuild>>

\* The back-edge step with the degree test left out.
BackEdge_AlwaysAppend ==
    /\ bpc = "back"
    /\ out' = [out EXCEPT ![Head(pending)] = Append(@, cur)]
    /\ pending' = Tail(pending)
    /\ bpc' = IF Tail(pending) = <<>> THEN AfterNode(todo) ELSE "back"
    /\ cur' = IF Tail(pending) = <<>> THEN 0 ELSE cur
    /\ lastPrune' = NoPrune
    /\ UNCHANGED <<pos, R, alpha, todo, notBuild>>

\* The back-edge p -> cur for the next accepted neighbour p of cur: appended
\* when the degree of p is below R, otherwise the neighbour list of p with
\* cur included is pruned again.
BackEdge ==
    /\ bpc = "back"
    /\ \E p \in {Head(pending)} :
           IF Len(out[p]) < R
           THEN /\ out' = [out EXCEPT ![p] = Append(@, cur)]
                /\ lastPrune' = NoPrune
           ELSE \E pool \in {Neighbours(out[p]) \cup {cur}} :
                    \E res \in RobustPrune(p, pool, R, alpha, <<>>) :
                        /\ out' = [out EXCEPT ![p] = res]
                        /\ lastPrune' = [called |-> TRUE, step |-> "back-edge",
                                         v |-> p, pool |-> pool, res |-> res]
    /\ pending' = Tail(pending)
    /\ bpc' = IF Tail(pending) = <<>> THEN AfterNode(todo) ELSE "back"
    /\ cur' = IF Tail(pending) = <<>> THEN 0 ELSE cur
    /\ UNCHANGED <<pos, R, alpha, todo, notBuild>>

NextBuild ==
    \/ \E v \in Points : \E visited \in SUBSET (Points \ {v}) :
           BuildNode(v, visited)
    \/ BackEdge

SpecBuild == InitBuild /\ [][NextBuild]_vars

\* ------------------------------------------------------- TileEncoder
\* The scalar quantizer of section 4.5 of the design: Add(value) keeps a
\* summary of the values seen, Encode(value) is the tile of 2^bits tiles of
\* equal population the value falls in, which is the share of the values seen
\* that are not above it, scaled by 2^bits: below all of them the code is 0
\* and above all of them 2^bits, as in TestTileEncoderEncode.
MaxBits    == 2   \* bits is 1..MaxBits
MaxValue   == 3   \* the values are 0..MaxValue
MaxSamples == 3   \* at most MaxSamples calls of Add

Values == 0..MaxValue

\* 2^b
RECURSIVE Pow2(_)
Pow2(b) == IF b = 0 THEN 1 ELSE 2 * Pow2(b - 1)

\* How many of the values seen are at most v
RECURSIVE CountUpTo(_, _)
CountUpTo(h, v) == IF v < 0 THEN 0 ELSE h[v] + CountUpTo(h, v - 1)

\* How many values were seen
Total(h) == CountUpTo(h, MaxValue)

\* Encode from the population of the value alone, not of the values below it.
Encode_Density(h, b, v) == (Pow2(b) * h[v]) \div Total(h)

\* encoder.Encode(value) after training
Encode(h, b, v) == (Pow2(b) * CountUpTo(h, v)) \div Total(h)

\* ssdhelpers.NewTileEncoder(bits)
InitTile ==
    /\ UpdaterIdle
    /\ StoreIdle
    /\ SetIdle
    /\ SyncIdle
    /\ SearchIdle
    /\ BuildIdle
    /\ bits \in 1..MaxBits
    /\ hist = [v \in Values |-> 0]
    /\ encoded = NoEncode

\* encoder.Add(value)
TileAdd(v) ==
    /\ Total(hist) < MaxSamples
    /\ hist' = [hist EXCEPT ![v] = @ + 1]
    /\ encoded' = NoEncode
    /\ UNCHANGED <<bits, notTile>>

\* encoder.Encode(value): fails before any value was seen
TileEncode(v) ==
    /\ encoded' = IF Total(hist) = 0
                  THEN [called |-> TRUE, value |-> v, code |-> 0,
                        failed |-> TRUE]
                  ELSE [called |-> TRUE, value |-> v,
                        code |-> Encode(hist, bits, v), failed |-> FALSE]
    /\ UNCHANGED <<bits, hist, notTile>>

NextTile ==
    \/ \E v \in Values : TileAdd(v)
    \/ \E v \in Values : TileEncode(v)

SpecTile == InitTile /\ [][NextTile]_vars

\* ------------------------------------------------------- lsmkv store
\* The store as TestStoreLifecycle uses it, with buckets of the replace
\* strategy: Put writes to the memtable of the bucket, Get reads the memtable
\* and then what the directory holds, Shutdown flushes the memtables to the
\* directory, and a new store on the directory loads what is there.
MaxKeys == 1   \* the keys are 1..MaxKeys
MaxVals == 2   \* the values are 1..MaxVals

Buckets == {"bucket1", "bucket2"}
Keys == 1..MaxKeys
Vals == 1..MaxVals
NotFound == 0      \* Get of a key that has no value: a nil result

\* No key has a value
Empty == [key \in Keys |-> NotFound]

\* A memtable over what the directory holds for a bucket
Merge(segment, memtable) ==
    [key \in Keys |->
        IF memtable[key] # NotFound THEN memtable[key] ELSE segment[key]]

\* t.TempDir(): an empty directory
InitStore ==
    /\ UpdaterIdle
    /\ SetIdle
    /\ SyncIdle
    /\ SearchIdle
    /\ BuildIdle
    /\ TileIdle
    /\ disk = [b \in Buckets |-> Empty]
    /\ open = FALSE
    /\ loaded = {}
    /\ mem = [b \in Buckets |-> Empty]
    /\ written = [b \in Buckets |-> Empty]
    /\ got = NoGet

\* store, err := New(dirName, ...)
New ==
    /\ ~open
    /\ open' = TRUE
    /\ loaded' = {}
    /\ mem' = [b \in Buckets |-> Empty]
    /\ got' = NoGet
    /\ UNCHANGED <<disk, written, notStore>>

\* store.CreateOrLoadBucket(ctx, b, WithStrategy(StrategyReplace))
CreateOrLoadBucket(b) ==
    /\ open
    /\ b \notin loaded
    /\ loaded' = loaded \cup {b}
    /\ got' = NoGet
    /\ UNCHANGED <<disk, open, mem, written, notStore>>

\* store.Bucket(b).Put(key, value)
Put(b, key, value) ==
    /\ open
    /\ b \in loaded
    /\ mem' = [mem EXCEPT ![b][key] = value]
    /\ written' = [written EXCEPT ![b][key] = value]
    /\ got' = NoGet
    /\ UNCHANGED <<disk, open, loaded, notStore>>

\* res, err := store.Bucket(b).Get(key)
Get(b, key) ==
    /\ open
    /\ b \in loaded
    /\ got' = [called |-> TRUE, bucket |-> b, key |-> key,
               res |-> Merge(disk[b], mem[b])[key]]
    /\ UNCHANGED <<disk, open, loaded, mem, written, notStore>>

\* Shutdown that closes the store without flushing the memtables.
Shutdown_NoFlush ==
    /\ open
    /\ open' = FALSE
    /\ loaded' = {}
    /\ mem' = [b \in Buckets |-> Empty]
    /\ got' = NoGet
    /\ UNCHANGED <<disk, written, notStore>>

\* store.Shutdown(ctx)
Shutdown ==
    /\ open
    /\ disk' = [b \in Buckets |->
                   IF b \in loaded THEN Merge(disk[b], mem[b]) ELSE disk[b]]
    /\ open' = FALSE
    /\ loaded' = {}
    /\ mem' = [b \in Buckets |-> Empty]
    /\ got' = NoGet
    /\ UNCHANGED <<written, notStore>>

NextStore ==
    \/ New
    \/ \E b \in Buckets : CreateOrLoadBucket(b)
    \/ \E b \in Buckets : \E key \in Keys : \E value \in Vals :
           Put(b, key, value)
    \/ \E b \in Buckets : \E key \in Keys : Get(b, key)
    \/ Shutdown

SpecStore == InitStore /\ [][NextStore]_vars

\* ------------------------------- referenceSchemaUpdater.addNetworkDataTypes
\* The schema handed over is nil or a map from prop names to props; a prop is
\* a primitive value, a *models.SingleRef or a models.MultipleRef.  What a
\* reference is (unparsable, local, or a network reference to something the
\* peers know as a Thing, as an Action, as something else or not at all) and
\* whether ListPeers and UpdatePropertyAddDataType succeed is settled when
\* singleRef gets to it.
MaxProps == 2   \* the map has at most MaxProps props, named 1..n
MaxRefs  == 2   \* a MultipleRef has at most MaxRefs references

Props ==
    {[type |-> "primitive", n |-> 0], [type |-> "SingleRef", n |-> 1]}
        \cup {[type |-> "MultipleRef", n |-> m] : m \in 0..MaxRefs}

RefSchemas ==
    {NilRefSchema} \cup
    {[isNil |-> FALSE, props |-> f] :
        f \in UNION {[1..n -> Props] : n \in 0..MaxProps}}

RefKinds == {"unparsable", "local", "Thing", "Action", "other", "unknown"}

\* func (u *referenceSchemaUpdater) updateSchema(remoteKind, ...): the error
\* returned and whether UpdatePropertyAddDataType was called
updateSchema(remoteKind, updOk) ==
    CASE remoteKind = "Thing" ->
             [called |-> TRUE,
              err |-> IF updOk THEN "nil"
                      ELSE "could not add network thing class"]
      [] remoteKind = "Action" ->
             [called |-> TRUE,
              err |-> IF updOk THEN "nil"
                      ELSE "could not add network action class"]
      [] OTHER ->
             [called |-> FALSE,
              err |-> "unrecognized kind from remote peer"]

\* func (u *referenceSchemaUpdater) singleRef(prop, propName)
singleRef(ref, peersOk, updOk) ==
    IF ref = "unparsable" THEN [called |-> FALSE, err |-> "parse"]
    ELSE IF ref = "local" THEN [called |-> FALSE, err |-> "nil"]
    ELSE IF ~peersOk
        THEN [called |-> FALSE, err |-> "could not list network peers"]
    ELSE IF ref = "unknown"
        THEN [called |-> FALSE, err |-> "invalid network reference"]
    ELSE updateSchema(ref, updOk)

\* What the log keeps of a call of singleRef
Handled(name, ref, r) ==
    [prop |-> name, ref |-> ref, called |-> r.called, err |-> r.err]

\* newReferenceSchemaUpdater(...) and the schema it is about to be given
InitUpdater ==
    /\ SetIdle
    /\ SyncIdle
    /\ SearchIdle
    /\ BuildIdle
    /\ TileIdle
    /\ StoreIdle
    /\ refSchema \in RefSchemas
    /\ remaining = {}
    /\ curProp = 0
    /\ refsLeft = 0
    /\ upc = "start"
    /\ uerr = "nil"
    /\ ulog = <<>>

\* addNetworkDataTypes(schema), lines 48-50: nil is returned for a nil schema
AddNetworkDataTypes ==
    /\ upc = "start"
    /\ IF refSchema.isNil
       THEN /\ upc' = "done"
            /\ UNCHANGED remaining
       ELSE /\ upc' = "range"
            /\ remaining' = DOMAIN refSchema.props
    /\ UNCHANGED <<refSchema, curProp, refsLeft, uerr, ulog, notUpdater>>

\* One turn of the range over the map, which yields the props in any order
\* (lines 52-71), and the return of nil after the last one (line 73).
RangeProps ==
    /\ upc = "range"
    /\ IF remaining = {}
       THEN /\ upc' = "done"
            /\ UNCHANGED <<remaining, curProp, refsLeft, uerr, ulog>>
       ELSE \E name \in remaining :
           /\ remaining' = remaining \ {name}
           /\ CASE refSchema.props[name].type = "SingleRef" ->
                       \E ref \in RefKinds : \E peersOk, updOk \in BOOLEAN :
                           \E r \in {singleRef(ref, peersOk, updOk)} :
                               /\ ulog' = Append(ulog, Handled(name, ref, r))
                               /\ uerr' = r.err
                               /\ upc' = IF r.err # "nil" THEN "done"
                                         ELSE "range"
                               /\ UNCHANGED <<curProp, refsLeft>>
                [] refSchema.props[name].type = "MultipleRef" ->
                       /\ curProp' = name
                       /\ refsLeft' = refSchema.props[name].n
                       /\ upc' = "multiple"
                       /\ UNCHANGED <<uerr, ulog>>
                [] OTHER ->
                       UNCHANGED <<curProp, refsLeft, upc, uerr, ulog>>
    /\ UNCHANGED <<refSchema, notUpdater>>

\* The loop over a MultipleRef that goes on after a failing reference.
RangeMultipleRef_ErrorIgnored ==
    /\ upc = "multiple"
    /\ IF refsLeft = 0
       THEN /\ upc' = "range"
            /\ curProp' = 0
            /\ UNCHANGED <<refsLeft, uerr, ulog>>
       ELSE \E ref \in RefKinds : \E peersOk, updOk \in BOOLEAN :
                \E r \in {singleRef(ref, peersOk, updOk)} :
                    /\ ulog' = Append(ulog, Handled(curProp, ref, r))
                    /\ uerr' = IF uerr # "nil" THEN uerr ELSE r.err
                    /\ refsLeft' = refsLeft - 1
                    /\ UNCHANGED <<upc, curProp>>
    /\ UNCHANGED <<refSchema, remaining, notUpdater>>

\* One turn of the loop over a MultipleRef (lines 60-65)
RangeMultipleRef ==
    /\ upc = "multiple"
    /\ IF refsLeft = 0
       THEN /\ upc' = "range"
            /\ curProp' = 0
            /\ UNCHANGED <<refsLeft, uerr, ulog>>
       ELSE \E ref \in RefKinds : \E peersOk, updOk \in BOOLEAN :
                \E r \in {singleRef(ref, peersOk, updOk)} :
                    /\ ulog' = Append(ulog, Handled(curProp, ref, r))
                    /\ uerr' = r.err
                    /\ IF r.err # "nil"
                       THEN /\ upc' = "done"
                            /\ curProp' = 0
                            /\ refsLeft' = 0
                       ELSE /\ refsLeft' = refsLeft - 1
                            /\ UNCHANGED <<upc, curProp>>
    /\ UNCHANGED <<refSchema, remaining, notUpdater>>

NextUpdater ==
    \/ AddNetworkDataTypes
    \/ RangeProps
    \/ RangeMultipleRef

SpecUpdater == InitUpdater /\ [][NextUpdater]_vars

\* ----------------------------------------------------------------- claims
\* Vocabulary of the claims, over the entries a tree holds.
MaxDistance(n) ==
    CHOOSE d \in {e.distance : e \in Entries(n)} :
        \A e \in Entries(n) : e.distance <= d

MinUnvisitedDistance(n) ==
    CHOOSE d \in {e.distance : e \in Unvisited(n)} :
        \A e \in Unvisited(n) : d <= e.distance

Unchanged == items = prev.items /\ size = prev.size

\* The last operation was an Add that returned, on a set holding capacity
\* entries (at least one).
AddOnFull ==
    /\ op.name = "Add"
    /\ ~op.panic
    /\ prev.items # NIL
    /\ Count(prev.items) = capacity

\* C1: with capacity L >= 1, the number of entries held and the value of
\* Size() never exceed L, whatever Add, AddRange and Top calls were made.
C1_SizeWithinCapacity ==
    capacity >= 1 => (size <= capacity /\ Count(items) <= capacity)

\* An Add on a set that held capacity entries replaced an entry: the set was
\* changed and still holds capacity entries.
C1_Witness ==
    /\ AddOnFull
    /\ items # prev.items
    /\ Count(items) = capacity
    /\ size = capacity

\* C2: an ID that Top has returned is never returned by a later Top, and no
\* operation turns the visited flag of an ID from true to false.
C2_NeverReturnedTwice ==
    /\ (op.name = "Top" /\ op.found) => op.ret \notin prev.returned
    /\ \A e \in Entries(prev.items) : \A f \in Entries(items) :
           (e.index = f.index /\ e.visited) => f.visited

\* C3: Add of an ID the set already holds is a no-op: the tree (IDs, order,
\* visited flags) and Size() are as before the call.
C3_AddIsIdempotent ==
    (op.name = "Add" /\ ~op.panic /\ op.x \in HeldIDs(prev.items)) => Unchanged

\* C4: on a set holding capacity entries, Add of a candidate strictly farther
\* than the farthest entry is a no-op.
C4_FartherIsNoOp ==
    (AddOnFull /\ op.dist > MaxDistance(prev.items)) => Unchanged

\* Such an Add was made, on a set of two entries one of which was visited.
C4_Witness ==
    /\ AddOnFull
    /\ op.dist > MaxDistance(prev.items)
    /\ Count(prev.items) >= 2
    /\ \E e \in Entries(prev.items) : e.visited

\* C5: on a set holding capacity entries, Add of a candidate exactly as far
\* as the farthest entry is a no-op: nothing is evicted, nothing inserted.
C5_EqualIsNoOp ==
    (AddOnFull /\ op.dist = MaxDistance(prev.items)) => Unchanged

\* C6: on a set holding capacity entries, Add of an ID not held and strictly
\* nearer than the farthest entry evicts exactly one entry, one of maximum
\* distance, and inserts the new ID unvisited; the other entries keep their
\* flags and their order, and the set still holds capacity entries.
C6_NearerEvictsFarthest ==
    (/\ AddOnFull
     /\ op.x \notin HeldIDs(prev.items)
     /\ op.dist < MaxDistance(prev.items))
    => \E e \in Entries(prev.items) :
           /\ e.distance = MaxDistance(prev.items)
           /\ Entries(items) =
                  (Entries(prev.items) \ {e}) \cup {MkData(op.x, op.dist)}
           /\ SelectSeq(InOrder(items), LAMBDA d : d.index # op.x) =
                  SelectSeq(InOrder(prev.items), LAMBDA d : d # e)
           /\ Count(items) = capacity
           /\ size = capacity

\* Such an Add was made on a set of two entries: the entry that stayed was
\* visited, and the new ID is held unvisited.
C6_Witness ==
    /\ AddOnFull
    /\ op.x \notin HeldIDs(prev.items)
    /\ op.dist < MaxDistance(prev.items)
    /\ Count(prev.items) >= 2
    /\ \E e \in Entries(prev.items) : e.visited /\ e \in Entries(items)
    /\ MkData(op.x, op.dist) \in Entries(items)

\* C7: Top on a set with an unvisited entry returns the ID of an unvisited
\* entry of minimal distance among the unvisited ones, marks that entry
\* visited and changes nothing else.
C7_TopReturnsNearestUnvisited ==
    (op.name = "Top" /\ ~op.panic /\ Unvisited(prev.items) # {})
    => LET P == InOrder(prev.items)
       IN  /\ op.found
           /\ size = prev.size
           /\ \E i \in 1..Len(P) :
                  /\ ~P[i].visited
                  /\ P[i].distance = MinUnvisitedDistance(prev.items)
                  /\ op.ret = P[i].index
                  /\ InOrder(items) = [P EXCEPT ![i].visited = TRUE]

\* Top chose between two unvisited entries at different distances.
C7_Witness ==
    /\ op.name = "Top"
    /\ op.found
    /\ Cardinality(Unvisited(prev.items)) >= 2
    /\ \E e \in Unvisited(prev.items) :
           e.distance > MinUnvisitedDistance(prev.items)

\* C8: when every entry is visited, what Top returns to its caller is not a
\* value the caller could take for a vector ID.
C8_NotFoundIsTellable ==
    (op.name = "Top" /\ ~op.panic /\ Unvisited(prev.items) = {})
    => op.ret \notin IDs

\* C9: on a non-empty set Elements() returns every ID held exactly once, in
\* non-decreasing order of distance to the center.
C9_ElementsSortedOnce ==
    (op.name = "Elements" /\ prev.items # NIL)
    => /\ ~op.panic
       /\ Len(op.elems) = Cardinality(HeldIDs(items))
       /\ {op.elems[i] : i \in 1..Len(op.elems)} = HeldIDs(items)
       /\ \A i, j \in 1..Len(op.elems) :
              i < j => distOf[op.elems[i]] <= distOf[op.elems[j]]

\* Elements() was called on a set of two entries at different distances.
C9_Witness ==
    /\ op.name = "Elements"
    /\ Len(op.elems) >= 2
    /\ distOf[op.elems[1]] < distOf[op.elems[Len(op.elems)]]

\* C10: when the fetch of the vector fails, an Add that returns reports an
\* error to its caller and leaves the set as it was.
C10_FetchFailureReported ==
    (op.name = "Add" /\ ~op.fetchOk /\ ~op.panic) => (op.err /\ Unchanged)

\* ---------------------------------------------- claims: startup cluster sync
InLog(e) == \E i \in 1..Len(log) : log[i] = e

CountInLog(e) == Cardinality({i \in 1..Len(log) : log[i] = e})

\* The schema has no classes: no ObjectSchema, or one without classes
EmptySchema(schema) ==
    schema = NilSchema \/ schema = [ObjectSchema |-> [Classes |-> {}]]

\* startupClusterSync has returned, in a cluster of more than one node
SyncedInCluster == pc = "done" /\ Len(nodes) > 1

\* m.state is as it was and saveSchema was not called
LocalSchemaUntouched == state = localSchema /\ ~InLog("state") /\ ~InLog("save")

\* C15 as stated: in a cluster of more than one node and with a non-empty
\* local schema, the startup fails when the local schema differs from the
\* schema the others agree on and succeeds when the two are identical; in
\* both cases the local schema is neither modified nor saved.
C15_DifferentFailsIdenticalSucceeds ==
    (SyncedInCluster /\ ~EmptySchema(localSchema))
    => /\ LocalSchemaUntouched
       /\ (localSchema # txSchema => err # "nil")
       /\ (localSchema = txSchema => err = "nil")

\* C15 amended: as above, but identical schemas make the startup succeed only
\* when the read transaction was opened and carries a schema payload; when it
\* was not, the startup fails with the transaction's error.
C15_Amended ==
    (SyncedInCluster /\ ~EmptySchema(localSchema))
    => /\ LocalSchemaUntouched
       /\ (localSchema # txSchema => err # "nil")
       /\ (localSchema = txSchema => (err = "nil" <=> (beginOk /\ payloadOk)))

\* The startup compared two different non-empty schemas and failed.
C15_Witness ==
    /\ SyncedInCluster
    /\ ~EmptySchema(localSchema)
    /\ ~EmptySchema(txSchema)
    /\ localSchema # txSchema
    /\ beginOk
    /\ payloadOk
    /\ err = "corrupt cluster"

\* C16: in a cluster of more than one node, with an empty local schema and a
\* read transaction that succeeds (opened, with a schema payload), the startup
\* succeeds; a non-empty agreed schema is then the local state and was saved,
\* an empty one leaves the local state as it was (and empty as well).
C16_EmptyLocalJoins ==
    (SyncedInCluster /\ EmptySchema(localSchema) /\ beginOk /\ payloadOk)
    => /\ err = "nil"
       /\ (~EmptySchema(txSchema) =>
               /\ state = txSchema
               /\ InLog("state")
               /\ InLog("save"))
       /\ (EmptySchema(txSchema) =>
               /\ LocalSchemaUntouched
               /\ EmptySchema(state))

\* A node with an ObjectSchema of zero classes took over a non-empty schema.
C16_Witness ==
    /\ SyncedInCluster
    /\ localSchema # NilSchema
    /\ EmptySchema(localSchema)
    /\ ~EmptySchema(txSchema)
    /\ state = txSchema
    /\ InLog("save")

\* C17: with at most one node reported, no transaction is opened and nothing
\* is synced; the startup fails with a corrupt-cluster-state error exactly
\* when the cluster has size 0 or its only node is not the local node.
C17_SingleNode ==
    (pc = "done" /\ Len(nodes) <= 1)
    => /\ log = <<>>
       /\ state = localSchema
       /\ IF Len(nodes) = 0 THEN err = "corrupt cluster state: size=0"
          ELSE IF nodes[1] # LocalName
          THEN err = "corrupt cluster state: node name"
          ELSE err = "nil"

\* The only node is the local one; its non-empty schema differs from the
\* others' and the startup succeeded all the same.
C17_Witness ==
    /\ pc = "done"
    /\ nodes = <<LocalName>>
    /\ ~EmptySchema(localSchema)
    /\ localSchema # txSchema
    /\ err = "nil"

\* C20: a read transaction that was opened is closed exactly once, at the
\* return of the function and after everything else it did (the overwrite of
\* m.state and the save included), on every path; when BeginTransaction fails
\* nothing is closed and its error is returned.
C20_ReadTransactionClosedOnce ==
    /\ InLog("close") => (pc = "done" /\ log[Len(log)] = "close")
    /\ (pc = "done" /\ Len(nodes) > 1) =>
           IF beginOk
           THEN /\ CountInLog("begin") = 1
                /\ CountInLog("close") = 1
                /\ log[1] = "begin"
           ELSE /\ log = <<>>
                /\ err = "read schema: open transaction"
    /\ (pc = "done" /\ InLog("save")) =>
           log = <<"begin", "state", "save", "close">>

\* A join that overwrote and saved the schema, then closed its transaction.
C20_Witness ==
    /\ pc = "done"
    /\ err = "nil"
    /\ log = <<"begin", "state", "save", "close">>

\* ------------------------------------------------------ claims: search
\* The result is in ascending order of distance to the query
SortedByDistance(l) ==
    \A i, j \in 1..Len(l) : i < j => distOf[l[i]] <= distOf[l[j]]

\* The elements of a list
Range(l) == {l[i] : i \in 1..Len(l)}

\* C11: Search(query, k) returns at most k results in ascending order of
\* distance to the query, without error; when the candidate set holds fewer
\* than k vectors at the end of the traversal the result is all of them, and
\* on an empty graph the result is empty.
C11_SearchResult ==
    /\ spc # "crashed"
    /\ spc = "done" =>
        /\ ~crashed
        /\ Len(result) <= k
        /\ SortedByDistance(result)
        /\ Range(result) \subseteq HeldIDs(items)
        /\ Count(items) < k =>
            /\ Len(result) = Count(items)
            /\ Range(result) = HeldIDs(items)
        /\ DOMAIN edges = {} => result = <<>>

\* A search over two vertices at different distances returned both, nearest
\* first
C11_Witness ==
    /\ spc = "done"
    /\ k = 2
    /\ Len(result) = 2
    /\ distOf[result[1]] < distOf[result[2]]

\* C19: the greedy search loop over a candidate set of capacity L >= 1
\* terminates on every finite graph, for every assignment of distances:
\* every search reaches its end.
C19_SearchTerminates == <>(spc = "done")

\* ------------------------------------------------------- claims: build
\* C12: every node of the graph has at most R out-edges after every step of
\* the per-node procedure, the back-edge step included, hence after a
\* completed build.
C12_DegreeAtMostR ==
    bpc \in {"node", "back", "done"} =>
        \A v \in DOMAIN out : Len(out[v]) <= R

\* A completed build in which a back-edge met a neighbour of degree R, whose
\* list was pruned again, and some vertex has R out-edges
C12_Witness ==
    /\ bpc = "done"
    /\ lastPrune.step = "back-edge"
    /\ Cardinality(lastPrune.pool) > R
    /\ \E v \in DOMAIN out : Len(out[v]) = R

\* C13: robust pruning of a pool relative to v returns at most R neighbours,
\* all of the pool, and none that a neighbour accepted before it occludes:
\* no q with alpha * distance(p, q) <= distance(v, q) for an earlier p.
C13_PruneKeepsNoOccluded ==
    lastPrune.called =>
        LET res == lastPrune.res
            v   == lastPrune.v
        IN  /\ Len(res) <= R
            /\ \A i \in 1..Len(res) : res[i] \in lastPrune.pool
            /\ \A i, j \in 1..Len(res) :
                   i < j =>
                       /\ Distance(v, res[i]) <= Distance(v, res[j])
                       /\ ~(alpha * Distance(res[i], res[j])
                                <= Distance(v, res[j]))

\* A pruning that accepted a neighbour and dropped a candidate of the pool
\* although fewer than R were accepted: the candidate was occluded
C13_Witness ==
    /\ lastPrune.called
    /\ Len(lastPrune.res) < R
    /\ lastPrune.res # <<>>
    /\ \E q \in lastPrune.pool :
           /\ \A i \in 1..Len(lastPrune.res) : lastPrune.res[i] # q
           /\ Distance(lastPrune.v, q) > 0

\* ------------------------------------------------ claims: tile encoder
\* The values given to Add
Seen == {v \in Values : hist[v] > 0}

\* C14: after training Encode is monotonic, Encode(v1) <= Encode(v2) for all
\* v1 <= v2; a value below every learned boundary has the lowest code and a
\* value above every learned boundary the highest; and a call of Encode
\* returns that code.
C14_EncodeMonotonic ==
    /\ Seen # {} =>
        /\ \A v1, v2 \in Values :
               v1 <= v2 => Encode(hist, bits, v1) <= Encode(hist, bits, v2)
        /\ \A v \in Values :
               /\ (\A u \in Seen : v < u) =>
                      \A w \in Values :
                          Encode(hist, bits, v) <= Encode(hist, bits, w)
               /\ (\A u \in Seen : v > u) =>
                      \A w \in Values :
                          Encode(hist, bits, w) <= Encode(hist, bits, v)
    /\ encoded.called /\ ~encoded.failed =>
        /\ Seen # {}
        /\ encoded.code = Encode(hist, bits, encoded.value)

\* An encoder trained on two different values encoded a value above both; a
\* value below both, one between them and one above them have three
\* different codes
C14_Witness ==
    /\ encoded.called
    /\ ~encoded.failed
    /\ \E lo, mid, hi \in Values :
           /\ \A u \in Seen : lo < u /\ u < hi
           /\ \E u1, u2 \in Seen : u1 <= mid /\ mid < u2
           /\ encoded.value = hi
           /\ Encode(hist, bits, lo) < Encode(hist, bits, mid)
           /\ Encode(hist, bits, mid) < Encode(hist, bits, hi)

C22_SizeIsNumberOfElements ==
    (~crashed /\ items # NIL) =>
        /\ size = Count(items)
        /\ \A e \in {SetElements(items, size)} :
               ~e.panic /\ Len(e.res) = size

\* C23: on a set to which nothing has been added NotVisited returns false,
\* Top reports that nothing was found and Elements returns the empty list,
\* none of them failing; and Add on a set of capacity 0 does not fail.
C23_TotalOnEmpty ==
    /\ (op.name = "NotVisited" /\ prev.items = NIL) =>
           (~op.panic /\ ~op.flag)
    /\ (op.name = "Top" /\ prev.items = NIL) => (~op.panic /\ ~op.found)
    /\ (op.name = "Elements" /\ prev.items = NIL) =>
           (~op.panic /\ op.elems = <<>>)
    /\ (op.name = "Add" /\ capacity = 0) => ~op.panic

\* ------------------------------------- claims: referenceSchemaUpdater
\* How many references of the prop name were handed to singleRef
HandledOf(name) ==
    Cardinality({i \in 1..Len(ulog) : ulog[i].prop = name})

\* C21: addNetworkDataTypes stops at the first reference that fails: nothing
\* is handled after it, so no UpdatePropertyAddDataType call follows, and its
\* error is the one returned.  nil is returned only when every reference of
\* the schema was handled and every one that is not local led to one
\* successful UpdatePropertyAddDataType call.  A nil schema, primitive props
\* and local references lead to no call.
C21_StopsAtFirstFailure ==
    upc \in {"start", "range", "multiple", "done"} =>
        /\ \A i \in 1..Len(ulog) :
               /\ i < Len(ulog) => ulog[i].err = "nil"
               /\ ulog[i].called => ulog[i].ref \in {"Thing", "Action"}
               /\ refSchema.props[ulog[i].prop].type # "primitive"
        /\ uerr # "nil" =>
               /\ upc = "done"
               /\ ulog # <<>>
               /\ uerr = ulog[Len(ulog)].err
        /\ refSchema.isNil => ulog = <<>>
        /\ (upc = "done" /\ uerr = "nil") =>
               /\ \A i \in 1..Len(ulog) :
                      /\ ulog[i].err = "nil"
                      /\ ulog[i].called <=> ulog[i].ref # "local"
               /\ \A name \in DOMAIN refSchema.props :
                      HandledOf(name) = refSchema.props[name].n

\* addNetworkDataTypes returned the error of a failed
\* UpdatePropertyAddDataType call that followed a successful one, and left a
\* reference of the schema unhandled
C21_Witness ==
    /\ upc = "done"
    /\ Len(ulog) = 2
    /\ ulog[1].called
    /\ ulog[2].called
    /\ uerr = "could not add network action class"
    /\ \E name \in DOMAIN refSchema.props :
           HandledOf(name) < refSchema.props[name].n

====
